---- MODULE Spec2Model ----
(***************************************************************************)
(* Sermon metadata generator: the document rewriter                       *)
(* (updateFileWithRadarSection), the metadata merge                        *)
(* (generateSermonMetadata), the labeled-score extraction                  *)
(* (generateRadarScores) and the per-document pipeline (processSermonFile).*)
(*                                                                         *)
(* Text is modelled line by line: a string is the sequence of its lines   *)
(* (the string is their join with "\n", so the empty string is one empty  *)
(* line).  A line is a tuple whose first element is its kind.              *)
(* A metadata object is a function from the keys it owns to their values; *)
(* reading a key it does not own gives JavaScript's undefined.             *)
(***************************************************************************)
EXTENDS Integers, Sequences, FiniteSets, TLC

\* ------------------------------------------------------------------ bounds
MaxBody == 4
MaxRewrites == 2
MaxReplyLines == 3
NumReplyCats == 2
MaxReplyTokens == 4
MaxFiles == 6
MaxReruns == 1

\* --------------------------------------------------------------- constants
RADAR_CATEGORIES ==
  << "theological_cohesion", "scriptural_integration", "structural_clarity",
     "liturgical_harmony", "voice_fidelity", "emotional_presence",
     "metaphorical_resonance", "closing_force", "embodied_authority" >>

categories ==
  << "theological_cohesion", "scriptural_integration", "structural_clarity",
     "liturgical_harmony", "voice_fidelity", "emotional_presence",
     "metaphorical_resonance", "closing_force", "improvisational_trust" >>

Range(s) == { s[i] : i \in 1..Len(s) }

EmptyObject == [k \in {} |-> 0]

\* ------------------------------------------------------------------- lines
BlankLine == << "blank" >>
MarkerLine == << "marker" >>
H1Line == << "h1" >>
TextLine == << "text" >>
GeneratedByLine(modelName, timestamp) == << "gen", modelName, timestamp >>
ScoreBullet(category, score, justification) ==
  << "bullet", category, score, justification >>

IsBlank(l) == l = BlankLine
IsMarker(l) == l = MarkerLine
IsH1(l) == l = H1Line
IsGenerated(l) == l[1] \in {"gen", "bullet"}

\* String.prototype.trim on a text: leading and trailing blank lines go;
\* the empty string is the single empty line.
RECURSIVE TrimStart(_)
TrimStart(ls) ==
  IF ls = << >> THEN << >>
  ELSE IF IsBlank(Head(ls)) THEN TrimStart(Tail(ls))
  ELSE ls

RECURSIVE TrimEnd(_)
TrimEnd(ls) ==
  IF ls = << >> THEN << >>
  ELSE IF IsBlank(ls[Len(ls)]) THEN TrimEnd(SubSeq(ls, 1, Len(ls) - 1))
  ELSE ls

Trim(ls) ==
  LET t == TrimEnd(TrimStart(ls))
  IN IF t = << >> THEN << BlankLine >> ELSE t

\* Index of the first line that starts with "## Radar Analysis", 0 if none.
FirstMarker(ls) ==
  IF \E i \in 1..Len(ls) : IsMarker(ls[i])
  THEN CHOOSE i \in 1..Len(ls) :
         IsMarker(ls[i]) /\ \A j \in 1..(i - 1) : ~IsMarker(ls[j])
  ELSE 0

\* A removal that runs from the marker to the end of the body.
RemoveRadarSection_ToEnd(ls) ==
  LET i == FirstMarker(ls)
  IN IF i = 0 THEN ls ELSE SubSeq(ls, 1, i - 1)

\* content.replace(/(^## Radar Analysis[\s\S]*?)(?=^# |\n*$)/m, ''):
\* the lazy [\s\S]*? stops at the first position where the lookahead holds,
\* and with the m flag "\n*$" holds at the end of the marker's own line.
\* The match is the marker line's text; the line is left empty.
RemoveRadarSection(ls) ==
  LET i == FirstMarker(ls)
  IN IF i = 0 THEN ls ELSE [ls EXCEPT ![i] = BlankLine]

\* ---------------------------------------------------------------- metadata
Has(obj, key) == key \in DOMAIN obj

\* `{ ...rest } = obj` without one key.
Without(obj, key) == [k \in (DOMAIN obj) \ {key} |-> obj[k]]

\* Keys whose values are strings; lists and maps are truthy even when empty.
ScalarKeys == { "sermon_title", "bolt" }

\* !!obj.key : the key is owned and its value is not the empty string.
Truthy(obj, key) == Has(obj, key) /\ (key \in ScalarKeys => obj[key] # "")

\* { ...a, ...b } : b's keys override a's.
Spread(a, b) == b @@ a

\* obj.key || {}
ObjectOr(obj, key) == IF Has(obj, key) THEN obj[key] ELSE EmptyObject

\* key: a.key || b.key ; an undefined result leaves no key behind when the
\* object is dumped or read.
OrElse(a, b, key) ==
  IF Truthy(a, key) THEN key :> a[key]
  ELSE IF Has(b, key) THEN key :> b[key]
  ELSE EmptyObject

ExplicitKeys ==
  { "bolt", "themes", "metaphors", "radar_score", "radar_justifications" }

\* const mergedMetadata = { ...metadata, ...existingMetadata, bolt: ...,
\*   themes: ..., metaphors: ..., radar_score: {...}, radar_justifications }
mergedMetadata(metadata, existingMetadata) ==
  LET spread == Spread(metadata, existingMetadata)
  IN OrElse(metadata, existingMetadata, "bolt")
     @@ OrElse(metadata, existingMetadata, "themes")
     @@ OrElse(metadata, existingMetadata, "metaphors")
     @@ ("radar_score" :>
           Spread(ObjectOr(existingMetadata, "radar_score"),
                  ObjectOr(metadata, "radar_score")))
     @@ ("radar_justifications" :>
           ObjectOr(existingMetadata, "radar_justifications"))
     @@ [k \in (DOMAIN spread) \ ExplicitKeys |-> spread[k]]

\* ------------------------------------------------ the metadata reply
\* The metadata reply is a sequence of tokens: an opening brace, a closing
\* brace, a "key": value pair, a code fence, or prose without braces.
JsonTokens == { "{", "}", "pair", "fence", "text" }

\* Index of the first token t of r after position from, 0 if none.
IndexAfter(r, t, from) ==
  IF \E i \in (from + 1)..Len(r) : r[i] = t
  THEN CHOOSE i \in (from + 1)..Len(r) :
         r[i] = t /\ \A j \in (from + 1)..(i - 1) : r[j] # t
  ELSE 0

\* llmResponse.match(/<fence>(?:json)?\s*([\s\S]*?)<fence>/), a fence being
\* three backquotes: the lazy group ends at the first fence after the
\* opening one.
jsonBlockMatch(llmResponse) ==
  LET open == IndexAfter(llmResponse, "fence", 0)
      close == IF open = 0 THEN 0 ELSE IndexAfter(llmResponse, "fence", open)
  IN IF close = 0 THEN [ matched |-> FALSE, text |-> << >> ]
     ELSE [ matched |-> TRUE,
            text |-> SubSeq(llmResponse, open + 1, close - 1) ]

\* llmResponse.match(/{[\s\S]*?}/) : the lazy body ends at the first closing
\* brace after the first opening one.
jsonMatch(llmResponse) ==
  LET open == IndexAfter(llmResponse, "{", 0)
      close == IF open = 0 THEN 0 ELSE IndexAfter(llmResponse, "}", open)
  IN IF close = 0 THEN [ matched |-> FALSE, text |-> << >> ]
     ELSE [ matched |-> TRUE, text |-> SubSeq(llmResponse, open, close) ]

\* Opening braces minus closing braces among the first i tokens.
RECURSIVE Depth(_, _)
Depth(ts, i) ==
  IF i = 0 THEN 0
  ELSE Depth(ts, i - 1)
       + (IF ts[i] = "{" THEN 1 ELSE IF ts[i] = "}" THEN 0 - 1 ELSE 0)

\* JSON.parse accepts the text: one object, closed by its last token.
IsJsonObject(ts) ==
  /\ Len(ts) >= 2
  /\ ts[1] = "{"
  /\ \A i \in 1..Len(ts) : ts[i] \in { "{", "}", "pair" }
  /\ \A i \in 1..(Len(ts) - 1) : Depth(ts, i) >= 1
  /\ Depth(ts, Len(ts)) = 0

\* The object JSON.parse returns: a pair directly in the object is
\* "bolt": "B", an inner object is "radar_score": {...} and a pair within
\* it is "theological_cohesion": 7.
JsonParse(ts) ==
  LET top == { i \in 1..Len(ts) : ts[i] = "pair" /\ Depth(ts, i) = 1 }
      inner == { i \in 2..Len(ts) : ts[i] = "{" }
      deep == { i \in 1..Len(ts) : ts[i] = "pair" /\ Depth(ts, i) >= 2 }
  IN (IF top = {} THEN EmptyObject ELSE "bolt" :> "B")
     @@ (IF inner = {} THEN EmptyObject
         ELSE "radar_score" :>
                (IF deep = {} THEN EmptyObject
                 ELSE "theological_cohesion" :> 7))

\* The try block of the extraction: the fenced block when it captured
\* something, else the brace match, else "No JSON found in response".
ExtractJson(llmResponse) ==
  LET block == jsonBlockMatch(llmResponse)
      brace == jsonMatch(llmResponse)
      text == IF block.matched /\ block.text # << >> THEN block.text
              ELSE brace.text
  IN [ parsed |-> IsJsonObject(text), text |-> text ]

\* A catch block that lets the parse error reach the caller.
ParseFailure_Rethrow(existing) ==
  [ threw |-> TRUE, value |-> EmptyObject ]

\* catch (error) { ...; return existingMetadata; }
ParseFailure(existing) ==
  [ threw |-> FALSE, value |-> existing ]

\* ------------------------------------------------------- provider calls
\* The three ways a logical call reaches a provider: the OpenAI client, the
\* Anthropic client, and the OpenRouter branch of either function.
Paths == { "openai", "anthropic", "openrouter" }

\* maxRetries = 3 of callOpenAIWithRetry, maxRetries = 5 of
\* callClaudeWithRetry; no caller passes another value.
OpenAIMaxRetries == 3
ClaudeMaxRetries == 5

maxRetries(path) ==
  IF path = "openai" THEN OpenAIMaxRetries
  ELSE IF path = "anthropic" THEN ClaudeMaxRetries
  ELSE 0

\* The failures a provider answers with. A header of 0 stands for a header
\* that is absent or "0": parseInt gives NaN or 0, both falsy.
ProviderError(status, code, shouldRetry, retryAfterMs, retryAfter) ==
  [ status |-> status, code |-> code, shouldRetry |-> shouldRetry,
    retryAfterMs |-> retryAfterMs, retryAfter |-> retryAfter ]

ProviderErrors ==
  { ProviderError(429, "rate_limit_exceeded", FALSE, h[1], h[2]) :
      h \in { << 0, 0 >>, << 7000, 0 >>, << 0, 3 >>, << 0, 3600 >> } }
  \cup { ProviderError(529, "overloaded_error", FALSE, 0, 0),
         ProviderError(500, "api_error", TRUE, 0, 0),
         ProviderError(400, "invalid_request_error", FALSE, 0, 0) }

RECURSIVE Pow2(_)
Pow2(n) == IF n = 0 THEN 1 ELSE 2 * Pow2(n - 1)

\* A failure that is not retried.
NoRetry == 0 - 1

RateLimitBaseMs == 2000
OverloadBaseMs == 5000
RetryableBaseMs == 3000

\* parseInt(headers['retry-after-ms']) || parseInt(headers['retry-after'])
\*   * 1000 || 2000
openaiWaitTime(error) ==
  IF error.retryAfterMs # 0 THEN error.retryAfterMs
  ELSE IF error.retryAfter * 1000 # 0 THEN error.retryAfter * 1000
  ELSE RateLimitBaseMs

\* The catch block of callOpenAIWithRetry: the wait before the next attempt,
\* or NoRetry when the error is thrown.
openaiWait(error, retries) ==
  IF error.code = "rate_limit_exceeded" /\ retries < OpenAIMaxRetries
  THEN openaiWaitTime(error)
  ELSE NoRetry

\* An overload wait that does not grow.
overloadWaitTime_Flat(retries) == OverloadBaseMs

\* const waitTime = 5000 * Math.pow(2, retries)
overloadWaitTime(retries) == OverloadBaseMs * Pow2(retries)

\* A catch block whose last branch waits and retries as well.
claudeWait_RetryAll(error, retries) ==
  IF retries < ClaudeMaxRetries
  THEN RetryableBaseMs * Pow2(retries)
  ELSE NoRetry

\* The catch block of callClaudeWithRetry.
claudeWait(error, retries) ==
  IF error.status = 429 /\ retries < ClaudeMaxRetries
  THEN RateLimitBaseMs * Pow2(retries)
  ELSE IF error.status = 529 /\ retries < ClaudeMaxRetries
  THEN overloadWaitTime(retries)
  ELSE IF error.shouldRetry /\ retries < ClaudeMaxRetries
  THEN RetryableBaseMs * Pow2(retries)
  ELSE NoRetry

\* The OpenRouter branch of both functions: catch, log, throw.
openRouterWait(error, retries) == NoRetry

RetryWait(path, error, retries) ==
  IF path = "openai" THEN openaiWait(error, retries)
  ELSE IF path = "anthropic" THEN claudeWait(error, retries)
  ELSE openRouterWait(error, retries)

\* A counter that only rate-limit failures advance.
RetriesAfter_RateLimitOnly(error, retries) ==
  IF error.status = 429 THEN retries + 1 ELSE retries

\* retries++ : the one counter every retried failure advances.
RetriesAfter(error, retries) == retries + 1

\* One attempt of a running call fails with error.
AttemptFailed(call, path, error) ==
  LET waitTime == RetryWait(path, error, call.retries)
  IN IF waitTime = NoRetry
     THEN [ call EXCEPT !.status = "failed", !.sends = @ + 1 ]
     ELSE [ call EXCEPT !.sends = @ + 1,
                        !.waits = Append(@, waitTime),
                        !.retries = RetriesAfter(error, @) ]

\* One attempt of a running call is answered.
AttemptAnswered(call) ==
  [ call EXCEPT !.status = "returned", !.sends = @ + 1 ]

\* ------------------------------------------------- labeled-score replies
\* A reply is a sequence of lines: <<"SCORE", category, value>> (a negative
\* value stands for text that /\d+(\.\d+)?/ does not match),
\* <<"JUSTIFICATION", category, text>> with non-empty text, or other text.
NotANumber == 0 - 1
Sentinel == << "No evaluation provided." >>

IsScoreLine(l, category) ==
  l[1] = "SCORE" /\ l[2] = category /\ l[3] >= 0

IsJustificationLine(l, category) ==
  l[1] = "JUSTIFICATION" /\ l[2] = category

IsLabel(l) == l[1] \in { "SCORE", "JUSTIFICATION" }

\* Index of the first line the score pattern of a category matches, 0 if none.
FirstScoreLine(reply, category) ==
  IF \E i \in 1..Len(reply) : IsScoreLine(reply[i], category)
  THEN CHOOSE i \in 1..Len(reply) :
         /\ IsScoreLine(reply[i], category)
         /\ \A j \in 1..(i - 1) : ~IsScoreLine(reply[j], category)
  ELSE 0

\* Index of the first JUSTIFICATION line of a category, 0 if none.
FirstJustificationLine(reply, category) ==
  IF \E i \in 1..Len(reply) : IsJustificationLine(reply[i], category)
  THEN CHOOSE i \in 1..Len(reply) :
         /\ IsJustificationLine(reply[i], category)
         /\ \A j \in 1..(i - 1) : ~IsJustificationLine(reply[j], category)
  ELSE 0

\* The text lines that continue a justification: up to the next label.
RECURSIVE Continuation(_)
Continuation(ls) ==
  IF ls = << >> \/ IsLabel(Head(ls)) THEN << >>
  ELSE << "t" >> \o Continuation(Tail(ls))

\* llmResponse.match(/SCORE <category>:\s*(\d+(?:\.\d+)?)/i) ; parseFloat
ExtractScores(llmResponse) ==
  LET found == { c \in Range(RADAR_CATEGORIES) :
                   FirstScoreLine(llmResponse, c) # 0 }
  IN [ c \in found |-> llmResponse[FirstScoreLine(llmResponse, c)][3] ]

\* llmResponse.match(/JUSTIFICATION <category>:\s*(.+?)(?=\n\s*SCORE|\n\s*JUSTIFICATION|$)/is)
ExtractJustifications(llmResponse) ==
  LET found == { c \in Range(RADAR_CATEGORIES) :
                   FirstJustificationLine(llmResponse, c) # 0 }
  IN [ c \in found |->
         LET i == FirstJustificationLine(llmResponse, c)
         IN llmResponse[i][3]
            \o Continuation(SubSeq(llmResponse, i + 1, Len(llmResponse))) ]

\* A default fill that resets every category once any score is missing.
DefaultFill_All(radar_score, justifications) ==
  IF \A c \in Range(RADAR_CATEGORIES) : Has(radar_score, c)
  THEN [ radar_score |-> radar_score, justifications |-> justifications ]
  ELSE [ radar_score |-> [ c \in Range(RADAR_CATEGORIES) |-> 0 ],
         justifications |-> [ c \in Range(RADAR_CATEGORIES) |-> Sentinel ] ]

\* "Fallback: ensure all domains are present"
DefaultFill(radar_score, justifications) ==
  LET missing == { c \in Range(RADAR_CATEGORIES) : ~Has(radar_score, c) }
  IN [ radar_score |-> [ c \in missing |-> 0 ] @@ radar_score,
       justifications |-> [ c \in missing |-> Sentinel ] @@ justifications ]

\* generateRadarScores when the provider call returned llmResponse.
generateRadarScores(llmResponse) ==
  DefaultFill(ExtractScores(llmResponse), ExtractJustifications(llmResponse))

\* generateRadarScores when the provider call threw: the catch block.
generateRadarScoresFailed(existingMetadata) ==
  [ radar_score |-> ObjectOr(existingMetadata, "radar_score"),
    justifications |-> EmptyObject ]

\* validateSermonYAML: the categories whose score is range-checked.
scoreFields ==
  << "theological_cohesion", "scriptural_integration", "structural_clarity",
     "liturgical_harmony", "voice_fidelity", "emotional_presence",
     "metaphorical_resonance", "closing_force", "improvisational_trust" >>

\* validateSermonYAML(sermonYAML).errors, as a set: a missing required field,
\* and every field of scoreFields whose score is outside 0..10.
validateSermonYAML(sermonYAML) ==
  { << "missing", field >> : field \in
      { f \in { "sermon_title" } : ~Truthy(sermonYAML, f) } }
  \cup
  { << "invalid", field >> : field \in
      { f \in Range(scoreFields) :
          /\ Has(sermonYAML, "radar_score")
          /\ Has(sermonYAML["radar_score"], f)
          /\ sermonYAML["radar_score"][f] \notin 0..10 } }

\* The '## Radar Analysis' section: heading, model line, empty line, one
\* bullet per category of the renderer's list that has a score, empty line.
RECURSIVE Bullets(_, _, _)
Bullets(cats, yamlData, justifications) ==
  IF cats = << >> THEN << >>
  ELSE LET category == Head(cats)
           rest == Bullets(Tail(cats), yamlData, justifications)
       IN IF Has(yamlData, "radar_score")
             /\ Has(yamlData["radar_score"], category)
          THEN << ScoreBullet(category, yamlData["radar_score"][category],
                              IF Has(justifications, category)
                              THEN justifications[category] ELSE << >>) >>
               \o rest
          ELSE rest

RenderRadarSection(yamlData, justifications, modelName, timestamp) ==
  << MarkerLine, GeneratedByLine(modelName, timestamp), BlankLine >>
  \o Bullets(categories, yamlData, justifications)
  \o << BlankLine >>

\* A dump of yamlData as it is, justifications included.
FrontmatterOf_KeepAll(yamlData, modelName, timestamp) ==
  ("radar_info" :> << modelName, timestamp >>) @@ yamlData

\* yamlData.radar_info = ...; const { radar_justifications, ...rest } = yamlData;
\* yaml.dump(rest)
FrontmatterOf(yamlData, modelName, timestamp) ==
  Without(("radar_info" :> << modelName, timestamp >>) @@ yamlData,
          "radar_justifications")

\* The text updateFileWithRadarSection writes for a stored document `doc`.
\* matter(text).content of the written text starts with the empty line that
\* follows the closing delimiter.
NewContent(doc, yamlData, justifications, modelName, timestamp) ==
  [ header |-> FrontmatterOf(yamlData, modelName, timestamp),
    body |-> << BlankLine >>
             \o RenderRadarSection(yamlData, justifications, modelName, timestamp)
             \o Trim(RemoveRadarSection(doc.body)) ]

\* ------------------------------------------------------------------- state
VARIABLES
  file,       \* the stored document: parsed frontmatter and content lines
  prevFile,   \* the stored document before the last write
  lastArgs,   \* the arguments of the last updateFileWithRadarSection call
  nwrites,    \* number of writes so far
  pc,               \* position in processSermonFile / the function under test
  options,          \* generateMissing, updateExisting, scoreOnly, dryRun
  existingMetadata, \* frontmatter read at the start
  metadata,         \* the object parsed from the metadata reply
  metadataOutcome,  \* "none", "callFailed", "noJson" or "parsed"
  newMetadata,      \* the metadata being assembled
  llmResponse,      \* the evaluation reply
  radarOutcome,     \* "none", "failed" or "reply"
  justifications,   \* the justifications carried to the rewrite
  radar,            \* the value generateRadarScores returned
  result,           \* the value processSermonFile returns
  calls,      \* per provider path: the state of one logical call
  errors,     \* the failures the provider has answered with, in order
  request,    \* the options and configured clients of one generation call
  dispatch,   \* the provider path that call took, or that it failed fast
  files,      \* the documents of the directory, in findMarkdownFiles order
  docs,       \* per document: position in processSermonFile and its result
  results,    \* processSermonDirectory's results array
  batchAt,    \* the loop index i of processSermonDirectory
  batchPc,    \* position in processSermonDirectory
  delays,     \* number of waits between batches that have elapsed
  invocations \* of this run of processSermonFile: the calls made so far;
              \* runs: the runs of processSermonFile that went before

rewriteVars == << file, prevFile, lastArgs, nwrites >>
callVars == << calls, errors, request, dispatch >>
batchVars == << files, docs, results, batchAt, batchPc, delays >>
\* What no step of processSermonFile or of the functions it calls assigns.
fixedVars == << options, callVars, batchVars >>
pipelineVars ==
  << pc, fixedVars, invocations, existingMetadata, metadata, metadataOutcome, newMetadata,
     llmResponse, radarOutcome, justifications, radar, result >>
vars ==
  << file, prevFile, lastArgs, nwrites, pc, options, existingMetadata,
     metadata, metadataOutcome, newMetadata, llmResponse, radarOutcome,
     justifications, radar, result, calls, errors, request, dispatch,
     files, docs, results, batchAt, batchPc, delays, invocations >>

\* ------------------------------------------------- inputs of the rewriter
AllScores(n) == [c \in Range(RADAR_CATEGORIES) |-> n]
AllJustified(j) == [c \in Range(RADAR_CATEGORIES) |-> j]

OldGeneratedBy == GeneratedByLine("m0", 0)
OldBullet == ScoreBullet("theological_cohesion", 3, << "old" >>)

LineKinds ==
  { BlankLine, TextLine, H1Line, MarkerLine, OldGeneratedBy, OldBullet }

SeqsUpTo(S, n) == UNION { [1..k -> S] : k \in 1..n }

Bodies == SeqsUpTo(LineKinds, MaxBody)

StoredHeaders ==
  { ("sermon_title" :> "A") @@ ("radar_score" :> AllScores(3)) }

RewriteArgs ==
  { [ yamlData |-> y[1], justifications |-> y[2],
      modelName |-> "m1", timestamp |-> t ] :
    y \in { << ("sermon_title" :> "A") @@ ("radar_score" :> AllScores(7))
               @@ ("radar_justifications" :> AllJustified(<< "J" >>)),
               AllJustified(<< "J" >>) >>,
            << ("radar_score" :> ("theological_cohesion" :> 3)),
               EmptyObject >> },
    t \in {1, 2} }

NoArgs ==
  [ yamlData |-> EmptyObject, justifications |-> EmptyObject,
    modelName |-> "none", timestamp |-> 0 ]

DefaultOptions ==
  [ generateMissing |-> TRUE, updateExisting |-> FALSE,
    scoreOnly |-> FALSE, dryRun |-> FALSE, fallbackModel |-> FALSE ]

NoResult ==
  [ updated |-> FALSE, metadata |-> EmptyObject, error |-> FALSE,
    returned |-> FALSE, validation |-> {} ]

NoInvocations == [ metadata |-> 0, radar |-> 0, update |-> 0, runs |-> 0 ]

NoRadar == [ radar_score |-> EmptyObject, justifications |-> EmptyObject ]

NoCall == [ status |-> "idle", retries |-> 0, sends |-> 0, waits |-> << >> ]

NoRequest ==
  [ caller |-> "none", model |-> "", useClaude |-> FALSE,
    useOpenRouter |-> FALSE, openai |-> FALSE, anthropic |-> FALSE,
    openRouter |-> FALSE ]

NoDispatch ==
  [ path |-> "none", sent |-> FALSE, threw |-> FALSE, model |-> "" ]

\* No provider call under way.
CallIdle ==
  /\ calls = [ p \in Paths |-> NoCall ]
  /\ errors = << >>
  /\ request = NoRequest
  /\ dispatch = NoDispatch

\* No directory being processed.
BatchIdle ==
  /\ files = << >>
  /\ docs = << >>
  /\ results = << >>
  /\ batchAt = 0
  /\ batchPc = "idle"
  /\ delays = 0

\* Everything of the pipeline except its position and its inputs.
PipelineIdle ==
  /\ options = DefaultOptions
  /\ metadataOutcome = "none"
  /\ newMetadata = EmptyObject
  /\ radarOutcome = "none"
  /\ justifications = EmptyObject
  /\ radar = NoRadar
  /\ result = NoResult
  /\ invocations = NoInvocations

\* ------------------------------------------------- the rewriter on its own
InitRewrite ==
  /\ file \in [ header : StoredHeaders, body : Bodies ]
  /\ prevFile = file
  /\ lastArgs = NoArgs
  /\ nwrites = 0
  /\ pc = "rewrite"
  /\ existingMetadata = EmptyObject
  /\ metadata = EmptyObject
  /\ llmResponse = << >>
  /\ PipelineIdle
  /\ CallIdle
  /\ BatchIdle

\* updateFileWithRadarSection(filePath, yamlData, justifications, modelName)
\* when reading, dumping and writing succeed.
updateFileWithRadarSection(a) ==
  /\ nwrites < MaxRewrites
  /\ file' = NewContent(file, a.yamlData, a.justifications,
                        a.modelName, a.timestamp)
  /\ prevFile' = file
  /\ lastArgs' = a
  /\ nwrites' = nwrites + 1

CallRewrite ==
  /\ pc = "rewrite"
  /\ \E a \in RewriteArgs : updateFileWithRadarSection(a)
  /\ UNCHANGED pipelineVars

NextRewrite == CallRewrite

SpecRewrite == InitRewrite /\ [][NextRewrite]_vars

\* ------------------------------------------------ claims on the rewriter
SectionOf(a) ==
  RenderRadarSection(a.yamlData, a.justifications, a.modelName, a.timestamp)

\* The lines of a written body that follow the new section.
Remainder(doc, a) ==
  SubSeq(doc.body, 2 + Len(SectionOf(a)), Len(doc.body))

\* C1: a rewrite repeated with the same header data, justifications, model
\* name and timestamp leaves the text the first rewrite produced.
C1_Idempotent ==
  nwrites >= 1 =>
    NewContent(file, lastArgs.yamlData, lastArgs.justifications,
               lastArgs.modelName, lastArgs.timestamp) = file

CountMarkers(ls) == Cardinality({ i \in 1..Len(ls) : IsMarker(ls[i]) })

\* C2: after any number of rewrites the body holds at most one marker and
\* no line of an earlier generated section.
C2_SingleSection ==
  nwrites >= 2 =>
    /\ CountMarkers(file.body) <= 1
    /\ \A i \in 1..Len(Remainder(file, lastArgs)) :
         ~IsGenerated(Remainder(file, lastArgs)[i])

\* Index of the first top-level heading after line i, Len + 1 if none.
NextH1(ls, i) ==
  IF \E j \in (i + 1)..Len(ls) : IsH1(ls[j])
  THEN CHOOSE j \in (i + 1)..Len(ls) :
         IsH1(ls[j]) /\ \A k \in (i + 1)..(j - 1) : ~IsH1(ls[k])
  ELSE Len(ls) + 1

BeforeSection(ls) ==
  IF FirstMarker(ls) = 0 THEN ls ELSE SubSeq(ls, 1, FirstMarker(ls) - 1)

AfterSection(ls) ==
  IF FirstMarker(ls) = 0 THEN << >>
  ELSE SubSeq(ls, NextH1(ls, FirstMarker(ls)), Len(ls))

\* C3: every line from the marker up to the next top-level heading (or the
\* end of the body) is gone after the rewrite.
C3_WholeSectionRemoved ==
  (nwrites >= 1 /\ CountMarkers(prevFile.body) = 1) =>
    Remainder(file, lastArgs)
      = Trim(BeforeSection(prevFile.body) \o AfterSection(prevFile.body))

\* C4 as stated: the lines before the marker and the lines from the next
\* top-level heading onward follow the new section unchanged, in order.
C4_FrameUnchanged ==
  nwrites >= 1 =>
    LET r == Remainder(file, lastArgs)
        pre == BeforeSection(prevFile.body)
        post == AfterSection(prevFile.body)
    IN /\ Len(pre) + Len(post) <= Len(r)
       /\ SubSeq(r, 1, Len(pre)) = pre
       /\ SubSeq(r, Len(r) - Len(post) + 1, Len(r)) = post

\* C4 (amended): the lines before the marker and the lines from the next
\* top-level heading onward follow the new section in order, unchanged
\* except that the blank lines at the start and end of the body are trimmed.
C4_FramePreserved ==
  nwrites >= 1 =>
    LET r == Remainder(file, lastArgs)
        pre == BeforeSection(prevFile.body)
        post == AfterSection(prevFile.body)
    IN \E i \in 1..(Len(r) + 1) : \E j \in (i - 1)..Len(r) :
         r = Trim(pre \o SubSeq(r, i, j) \o post)

C4_Witness ==
  /\ nwrites = 1
  /\ prevFile.body = << TextLine, MarkerLine, OldBullet, H1Line >>
  /\ Remainder(file, lastArgs) = << TextLine, BlankLine, OldBullet, H1Line >>

\* ------------------------------------------------ the merge on its own
Opt(key, values) == { EmptyObject } \cup { key :> v : v \in values }

ExistingMetadatas ==
  { a @@ b @@ c @@ d @@ e @@ f :
      a \in Opt("sermon_title", { "", "A" }),
      b \in Opt("bolt", { "", "A" }),
      c \in Opt("themes", { << >>, << "x" >> }),
      d \in Opt("metaphors", { << "x" >> }),
      e \in Opt("radar_score", { "liturgical_harmony" :> 5 }),
      f \in Opt("radar_justifications",
                { "liturgical_harmony" :> << "J" >> }) }

ExtractedMetadatas ==
  { a @@ b @@ c @@ d @@ e :
      a \in Opt("sermon_title", { "B" }),
      b \in Opt("bolt", { "", "B" }),
      c \in Opt("themes", { << >>, << "y" >> }),
      d \in Opt("metaphors", { << "y" >> }),
      e \in Opt("radar_score", { "theological_cohesion" :> 7 }) }

InitMerge ==
  /\ file = [ header |-> EmptyObject, body |-> << BlankLine >> ]
  /\ prevFile = file
  /\ lastArgs = NoArgs
  /\ nwrites = 0
  /\ pc = "merge"
  /\ existingMetadata \in ExistingMetadatas
  /\ metadata \in ExtractedMetadatas
  /\ llmResponse = << >>
  /\ PipelineIdle
  /\ CallIdle
  /\ BatchIdle

\* generateSermonMetadata from the parsed reply to its return value.
MergeParsed ==
  /\ pc = "merge"
  /\ newMetadata' = mergedMetadata(metadata, existingMetadata)
  /\ metadataOutcome' = "parsed"
  /\ pc' = "merged"
  /\ UNCHANGED << rewriteVars, fixedVars, invocations, existingMetadata, metadata,
                  llmResponse, radarOutcome, justifications, radar, result >>

NextMerge == MergeParsed

SpecMerge == InitMerge /\ [][NextMerge]_vars

\* C5: a non-empty existing themes or metaphors list is the merged list.
C5_ExistingListWins ==
  pc = "merged" =>
    \A key \in { "themes", "metaphors" } :
      (Has(existingMetadata, key) /\ existingMetadata[key] # << >>) =>
        (Has(newMetadata, key) /\ newMetadata[key] = existingMetadata[key])

\* C6: sermon_title and bolt take the existing value when it is present and
\* non-empty, and the extracted value otherwise.
C6_ExistingScalarWins ==
  pc = "merged" =>
    \A key \in ScalarKeys :
      IF Truthy(existingMetadata, key)
      THEN Has(newMetadata, key) /\ newMetadata[key] = existingMetadata[key]
      ELSE Truthy(metadata, key) =>
             (Has(newMetadata, key) /\ newMetadata[key] = metadata[key])

\* ------------------------------------- the metadata extraction on its own
MetadataReplies == { << >> } \cup SeqsUpTo(JsonTokens, MaxReplyTokens)

InitExtract ==
  /\ file = [ header |-> EmptyObject, body |-> << BlankLine >> ]
  /\ prevFile = file
  /\ lastArgs = NoArgs
  /\ nwrites = 0
  /\ pc = "extract"
  /\ existingMetadata \in
       { EmptyObject,
         ("sermon_title" :> "A") @@ ("bolt" :> "A")
           @@ ("radar_score" :> ("liturgical_harmony" :> 5)) }
  /\ metadata = EmptyObject
  /\ llmResponse \in MetadataReplies
  /\ PipelineIdle
  /\ CallIdle
  /\ BatchIdle

\* generateSermonMetadata from the provider's reply to its return.
MetadataReply ==
  /\ pc = "extract"
  /\ LET x == ExtractJson(llmResponse)
         failure == ParseFailure(existingMetadata)
     IN IF x.parsed
        THEN /\ metadata' = JsonParse(x.text)
             /\ metadataOutcome' = "parsed"
             /\ newMetadata' = mergedMetadata(JsonParse(x.text),
                                              existingMetadata)
             /\ pc' = "returned"
        ELSE /\ metadata' = metadata
             /\ metadataOutcome' = "noJson"
             /\ newMetadata' = failure.value
             /\ pc' = IF failure.threw THEN "threw" ELSE "returned"
  /\ UNCHANGED << rewriteVars, fixedVars, invocations, existingMetadata, llmResponse,
                  radarOutcome, justifications, radar, result >>

\* generateSermonMetadata when the provider call throws: the outer catch.
MetadataCallFailed ==
  /\ pc = "extract"
  /\ metadataOutcome' = "callFailed"
  /\ newMetadata' = existingMetadata
  /\ pc' = "returned"
  /\ UNCHANGED << rewriteVars, fixedVars, invocations, existingMetadata, metadata,
                  llmResponse, radarOutcome, justifications, radar, result >>

NextExtract == MetadataReply \/ MetadataCallFailed

SpecExtract == InitExtract /\ [][NextExtract]_vars

\* Index of the closing brace that matches the opening brace at open,
\* 0 if the object is never closed.
MatchingClose(ts, open) ==
  IF \E i \in open..Len(ts) : Depth(ts, i) = Depth(ts, open) - 1
  THEN CHOOSE i \in open..Len(ts) :
         /\ Depth(ts, i) = Depth(ts, open) - 1
         /\ \A j \in open..(i - 1) : Depth(ts, j) >= Depth(ts, open)
  ELSE 0

\* The first balanced brace-delimited substring of the reply.
FirstBalanced(ts) ==
  LET open == IndexAfter(ts, "{", 0)
  IN IF open = 0 \/ MatchingClose(ts, open) = 0 THEN << >>
     ELSE SubSeq(ts, open, MatchingClose(ts, open))

\* C12: a fenced block that holds an object is what is parsed; without a
\* fence, the first balanced brace-delimited substring is, so that an
\* unfenced object with a nested object is extracted whole.
C12_BalancedObjectExtracted ==
  (pc = "returned" /\ metadataOutcome # "callFailed") =>
    /\ ( jsonBlockMatch(llmResponse).matched
         /\ IsJsonObject(jsonBlockMatch(llmResponse).text) ) =>
           /\ metadataOutcome = "parsed"
           /\ metadata = JsonParse(jsonBlockMatch(llmResponse).text)
    /\ ( IndexAfter(llmResponse, "fence", 0) = 0
         /\ IsJsonObject(FirstBalanced(llmResponse)) ) =>
           /\ metadataOutcome = "parsed"
           /\ metadata = JsonParse(FirstBalanced(llmResponse))

\* C13: when no JSON is found or the found text does not parse,
\* generateSermonMetadata returns the existing metadata and does not throw.
C13_FailureReturnsExisting ==
  (pc # "extract" /\ metadataOutcome = "noJson") =>
    /\ pc = "returned"
    /\ newMetadata = existingMetadata

C13_Witness ==
  /\ pc = "returned"
  /\ metadataOutcome = "noJson"
  /\ llmResponse = << "text", "{", "pair" >>
  /\ existingMetadata # EmptyObject
  /\ newMetadata = existingMetadata

\* --------------------------------------- the score extraction on its own
ReplyCategories == { RADAR_CATEGORIES[i] : i \in 1..NumReplyCats }

ReplyLines ==
  { << "SCORE", c, v >> : c \in ReplyCategories, v \in { NotANumber, 0, 7, 15 } }
  \cup { << "JUSTIFICATION", c, << "J" >> >> : c \in ReplyCategories }
  \cup { << "text" >> }

Replies == { << >> } \cup SeqsUpTo(ReplyLines, MaxReplyLines)

InitRadar ==
  /\ file = [ header |-> EmptyObject, body |-> << BlankLine >> ]
  /\ prevFile = file
  /\ lastArgs = NoArgs
  /\ nwrites = 0
  /\ pc = "score"
  /\ existingMetadata \in
       { EmptyObject, "radar_score" :> ("liturgical_harmony" :> 5) }
  /\ metadata = EmptyObject
  /\ llmResponse \in Replies
  /\ PipelineIdle
  /\ CallIdle
  /\ BatchIdle

\* generateRadarScores from the provider's reply to its return value.
ScoreReply ==
  /\ pc = "score"
  /\ radar' = generateRadarScores(llmResponse)
  /\ radarOutcome' = "reply"
  /\ pc' = "scored"
  /\ UNCHANGED << rewriteVars, fixedVars, invocations, existingMetadata, metadata,
                  metadataOutcome, newMetadata, llmResponse, justifications,
                  result >>

\* generateRadarScores when the provider call throws.
ScoreFailed ==
  /\ pc = "score"
  /\ radar' = generateRadarScoresFailed(existingMetadata)
  /\ radarOutcome' = "failed"
  /\ pc' = "scored"
  /\ UNCHANGED << rewriteVars, fixedVars, invocations, existingMetadata, metadata,
                  metadataOutcome, newMetadata, llmResponse, justifications,
                  result >>

NextRadar == ScoreReply \/ ScoreFailed

SpecRadar == InitRadar /\ [][NextRadar]_vars

\* C9: for every reply each of the nine categories has a score in [0,10]
\* and a non-empty justification.
C9_ScoresInRange ==
  (pc = "scored" /\ radarOutcome = "reply") =>
    \A c \in Range(RADAR_CATEGORIES) :
      /\ Has(radar.radar_score, c)
      /\ radar.radar_score[c] \in 0..10
      /\ Has(radar.justifications, c)
      /\ radar.justifications[c] # << >>

HasScoreLine(reply, c) ==
  \E i \in 1..Len(reply) : reply[i][1] = "SCORE" /\ reply[i][2] = c

\* C10: a category without a SCORE line gets 0 and the sentinel; a category
\* whose SCORE line was parsed keeps its parsed score and justification.
C10_CategoriesIndependent ==
  (pc = "scored" /\ radarOutcome = "reply") =>
    \A c \in Range(RADAR_CATEGORIES) :
      /\ ~HasScoreLine(llmResponse, c) =>
           /\ radar.radar_score[c] = 0
           /\ radar.justifications[c] = Sentinel
      /\ Has(ExtractScores(llmResponse), c) =>
           /\ radar.radar_score[c] = ExtractScores(llmResponse)[c]
           /\ Has(radar.justifications, c)
                = Has(ExtractJustifications(llmResponse), c)
           /\ Has(radar.justifications, c) =>
                radar.justifications[c] = ExtractJustifications(llmResponse)[c]

C10_Witness ==
  /\ pc = "scored"
  /\ llmResponse = << << "SCORE", RADAR_CATEGORIES[1], 7 >>,
                      << "JUSTIFICATION", RADAR_CATEGORIES[1], << "J" >> >>,
                      << "JUSTIFICATION", RADAR_CATEGORIES[2], << "J" >> >> >>
  /\ radar.radar_score[RADAR_CATEGORIES[1]] = 7
  /\ radar.justifications[RADAR_CATEGORIES[1]] = << "J" >>
  /\ radar.radar_score[RADAR_CATEGORIES[2]] = 0
  /\ radar.justifications[RADAR_CATEGORIES[2]] = Sentinel

\* C11: a category whose score the reply omits, or gives as a non-number,
\* has no score in the value generateRadarScores returns, so that its caller
\* can tell it from a category the reply scored 0.
C11_OmittedScoreLeftUnset ==
  (pc = "scored" /\ radarOutcome = "reply") =>
    \A c \in Range(RADAR_CATEGORIES) :
      ~Has(ExtractScores(llmResponse), c) => ~Has(radar.radar_score, c)

\* ------------------------------------------------------ processSermonFile
needsFullMetadata(existing, opts) ==
  IF opts.updateExisting THEN ~opts.scoreOnly
  ELSE opts.generateMissing
       /\ ( \/ ~Truthy(existing, "sermon_title")
            \/ ~Truthy(existing, "bolt")
            \/ ~Has(existing, "themes")
            \/ existing["themes"] = << >>
            \/ ~Has(existing, "metaphors")
            \/ existing["metaphors"] = << >> )

\* Scores are generated whenever generation is asked for.
needsRadarScores_Always(existing, opts) ==
  opts.updateExisting \/ opts.generateMissing \/ opts.scoreOnly

needsRadarScores(existing, opts) ==
  IF opts.updateExisting THEN TRUE
  ELSE (opts.generateMissing \/ opts.scoreOnly)
       /\ ( \/ ~Has(existing, "radar_score")
            \/ DOMAIN existing["radar_score"] = {} )

CompleteHeader ==
  ("sermon_title" :> "A") @@ ("bolt" :> "A") @@ ("themes" :> << "x" >>)
  @@ ("metaphors" :> << "x" >>)

PipelineHeaders ==
  { EmptyObject,
    CompleteHeader,
    CompleteHeader
      @@ ("radar_score" :> (("liturgical_harmony" :> 5)
                            @@ ("improvisational_trust" :> 4)))
      @@ ("radar_justifications" :> ("liturgical_harmony" :> << "J" >>)),
    ("sermon_title" :> "") @@ ("themes" :> << >>)
      @@ ("radar_score" :> ("liturgical_harmony" :> 5)) }

PipelineBodies ==
  { << BlankLine, TextLine >>, << BlankLine, H1Line, TextLine >> }

PipelineExtracted ==
  { ("sermon_title" :> "B") @@ ("bolt" :> "B") @@ ("themes" :> << "y" >>)
      @@ ("metaphors" :> << "y" >>),
    ("bolt" :> "B") @@ ("radar_score" :> ("closing_force" :> 9)) }

FullReply(n) ==
  [ i \in 1..(2 * Len(RADAR_CATEGORIES)) |->
      IF i % 2 = 1
      THEN << "SCORE", RADAR_CATEGORIES[(i + 1) \div 2], n >>
      ELSE << "JUSTIFICATION", RADAR_CATEGORIES[i \div 2], << "J" >> >> ]

PipelineReplies ==
  { << >>,
    FullReply(7),
    << << "SCORE", "theological_cohesion", 7 >>,
       << "JUSTIFICATION", "theological_cohesion", << "J" >> >> >>,
    << << "SCORE", "theological_cohesion", 15 >> >> }

Init ==
  /\ file \in [ header : PipelineHeaders, body : PipelineBodies ]
  /\ prevFile = file
  /\ lastArgs = NoArgs
  /\ nwrites = 0
  /\ pc = "start"
  /\ options \in [ generateMissing : BOOLEAN, updateExisting : BOOLEAN,
                   scoreOnly : BOOLEAN, dryRun : BOOLEAN,
                   fallbackModel : BOOLEAN ]
  /\ existingMetadata = EmptyObject
  /\ metadata = EmptyObject
  /\ metadataOutcome = "none"
  /\ newMetadata = EmptyObject
  /\ llmResponse = << >>
  /\ radarOutcome = "none"
  /\ justifications = EmptyObject
  /\ radar = NoRadar
  /\ result = NoResult
  /\ invocations = NoInvocations
  /\ CallIdle
  /\ BatchIdle

\* needsFullMetadata || needsRadarScores, whatever dryRun says.
wantsUpdate_IgnoreDryRun(existing, opts) ==
  needsFullMetadata(existing, opts) \/ needsRadarScores(existing, opts)

\* !dryRun && (needsFullMetadata || needsRadarScores): the condition of the
\* write at line 805 and the value of `updated` at line 824.
wantsUpdate(existing, opts) ==
  ~opts.dryRun
  /\ ( needsFullMetadata(existing, opts) \/ needsRadarScores(existing, opts) )

\* Lines 800-825: the write (unless dryRun or nothing was needed) and the
\* returned value.  outcome is what updateFileWithRadarSection does: "ok",
\* "readFails" (it throws before touching yamlData) or "writeFails" (it
\* throws after setting yamlData.radar_info).
Finish(existing, meta, just, outcome) ==
  LET doWrite == wantsUpdate(existing, options)
      a == [ yamlData |-> meta, justifications |-> just,
             modelName |-> "default model", timestamp |-> 1 ]
      touched == IF doWrite /\ outcome # "readFails"
                 THEN ("radar_info" :> << a.modelName, a.timestamp >>) @@ meta
                 ELSE meta
  IN /\ IF doWrite /\ outcome = "ok"
        THEN updateFileWithRadarSection(a)
        ELSE UNCHANGED rewriteVars
     /\ newMetadata' = touched
     /\ justifications' = just
     /\ result' = [ updated |-> doWrite, metadata |-> touched,
                    error |-> FALSE, returned |-> TRUE,
                    validation |-> validateSermonYAML(meta) ]
     /\ pc' = "done"
     /\ invocations' = IF doWrite
                       THEN [ invocations EXCEPT !.update = @ + 1 ]
                       ELSE invocations

WriteOutcomes == { "ok", "readFails", "writeFails" }

\* Lines 708-749: read the file, decide what is needed, up to the first await.
Start ==
  /\ pc = "start"
  /\ existingMetadata' = file.header
  /\ UNCHANGED << fixedVars, metadata, metadataOutcome, llmResponse,
                  radarOutcome, radar >>
  /\ IF needsFullMetadata(file.header, options)
     THEN /\ pc' = "awaitMetadata"
          /\ newMetadata' = file.header
          /\ invocations' = [ invocations EXCEPT !.metadata = @ + 1 ]
          /\ UNCHANGED << rewriteVars, justifications, result >>
     ELSE IF needsRadarScores(file.header, options)
     THEN /\ pc' = "awaitRadar"
          /\ newMetadata' = file.header
          /\ invocations' = [ invocations EXCEPT !.radar = @ + 1 ]
          /\ UNCHANGED << rewriteVars, justifications, result >>
     ELSE Finish(file.header, file.header, EmptyObject, "ok")

\* Radar step of lines 751-758 followed by the rest of the function.
AfterMetadata(meta) ==
  /\ IF needsRadarScores(existingMetadata, options)
     THEN /\ pc' = "awaitRadar"
          /\ newMetadata' = meta
          /\ invocations' = [ invocations EXCEPT !.radar = @ + 1 ]
          /\ UNCHANGED << rewriteVars, justifications, result >>
     ELSE \E outcome \in WriteOutcomes :
            Finish(existingMetadata, meta, EmptyObject, outcome)
  /\ UNCHANGED << fixedVars, existingMetadata, llmResponse, radarOutcome, radar >>

\* generateSermonMetadata returns the merge of a parsed reply.
MetadataParsed ==
  /\ pc = "awaitMetadata"
  /\ \E m \in PipelineExtracted :
       /\ metadata' = m
       /\ metadataOutcome' = "parsed"
       /\ AfterMetadata(mergedMetadata(m, existingMetadata))

\* generateSermonMetadata returns existingMetadata: the provider call threw
\* or the reply held no parsable JSON.
MetadataFallsBack ==
  /\ pc = "awaitMetadata"
  /\ metadata' = EmptyObject
  /\ \E o \in { "callFailed", "noJson" } : metadataOutcome' = o
  /\ AfterMetadata(existingMetadata)

\* newMetadata.radar_score = radar_score; justifications = radarJustifications
AfterRadar(r) ==
  /\ radar' = r
  /\ \E outcome \in WriteOutcomes :
       Finish(existingMetadata, ("radar_score" :> r.radar_score) @@ newMetadata,
              r.justifications, outcome)
  /\ UNCHANGED << fixedVars, existingMetadata, metadata, metadataOutcome >>

\* generateRadarScores returns the scores extracted from a reply.
RadarReplied ==
  /\ pc = "awaitRadar"
  /\ \E reply \in PipelineReplies :
       /\ llmResponse' = reply
       /\ radarOutcome' = "reply"
       /\ AfterRadar(generateRadarScores(reply))

\* generateRadarScores catches the provider's error.
RadarFailed ==
  /\ pc = "awaitRadar"
  /\ llmResponse' = << >>
  /\ radarOutcome' = "failed"
  /\ AfterRadar(generateRadarScoresFailed(Spread(existingMetadata, newMetadata)))

\* The command is run again on the same document with the same options.
RunAgain ==
  /\ pc = "done"
  /\ invocations.runs < MaxReruns
  /\ pc' = "start"
  /\ invocations' = [ NoInvocations EXCEPT !.runs = invocations.runs + 1 ]
  /\ existingMetadata' = EmptyObject
  /\ metadata' = EmptyObject
  /\ metadataOutcome' = "none"
  /\ newMetadata' = EmptyObject
  /\ llmResponse' = << >>
  /\ radarOutcome' = "none"
  /\ justifications' = EmptyObject
  /\ radar' = NoRadar
  /\ result' = NoResult
  /\ UNCHANGED << rewriteVars, fixedVars >>

Next ==
  \/ Start
  \/ MetadataParsed
  \/ MetadataFallsBack
  \/ RadarReplied
  \/ RadarFailed
  \/ RunAgain

Spec == Init /\ [][Next]_vars

\* C7: in the header processSermonFile writes, every category has the
\* freshly extracted score when there is one and the existing score otherwise.
C7_ScoresMergedPerCategory ==
  (pc = "done" /\ radarOutcome = "reply" /\ nwrites = 1) =>
    LET fresh == ExtractScores(llmResponse)
        old == ObjectOr(existingMetadata, "radar_score")
        written == ObjectOr(file.header, "radar_score")
    IN \A c \in (DOMAIN fresh) \cup (DOMAIN old) :
         /\ Has(written, c)
         /\ written[c] = IF Has(fresh, c) THEN fresh[c] ELSE old[c]

\* C8: a header written by updateFileWithRadarSection has no
\* radar_justifications key.
C8_NoJustificationsInHeader ==
  nwrites >= 1 => ~Has(file.header, "radar_justifications")

C8_Witness ==
  /\ pc = "done"
  /\ nwrites = 1
  /\ Has(lastArgs.yamlData, "radar_justifications")
  /\ DOMAIN lastArgs.yamlData["radar_justifications"] # {}
  /\ Has(file.header, "radar_score")

\* ------------------------------------------- the retry loops on their own
\* One logical call on each provider path, all given the same answers.
InitRetry ==
  /\ file = [ header |-> EmptyObject, body |-> << BlankLine >> ]
  /\ prevFile = file
  /\ lastArgs = NoArgs
  /\ nwrites = 0
  /\ pc = "call"
  /\ existingMetadata = EmptyObject
  /\ metadata = EmptyObject
  /\ llmResponse = << >>
  /\ PipelineIdle
  /\ BatchIdle
  /\ calls = [ p \in Paths |-> [ NoCall EXCEPT !.status = "running" ] ]
  /\ errors = << >>
  /\ request = NoRequest
  /\ dispatch = NoDispatch

\* The provider answers the current attempt with an error.
ProviderFails ==
  /\ \E p \in Paths : calls[p].status = "running"
  /\ \E error \in ProviderErrors :
       /\ calls' = [ p \in Paths |->
                       IF calls[p].status = "running"
                       THEN AttemptFailed(calls[p], p, error)
                       ELSE calls[p] ]
       /\ errors' = Append(errors, error)
  /\ UNCHANGED << rewriteVars, pc, options, invocations, batchVars, existingMetadata,
                  metadata, metadataOutcome, newMetadata, llmResponse,
                  radarOutcome, justifications, radar, result, request,
                  dispatch >>

\* The provider answers the current attempt with a completion.
ProviderAnswers ==
  /\ \E p \in Paths : calls[p].status = "running"
  /\ calls' = [ p \in Paths |->
                  IF calls[p].status = "running"
                  THEN AttemptAnswered(calls[p])
                  ELSE calls[p] ]
  /\ UNCHANGED << rewriteVars, pc, options, invocations, batchVars, existingMetadata,
                  metadata, metadataOutcome, newMetadata, llmResponse,
                  radarOutcome, justifications, radar, result, errors,
                  request, dispatch >>

NextRetry == ProviderFails \/ ProviderAnswers

SpecRetry == InitRetry /\ [][NextRetry]_vars

\* The failures the call on path p has been answered with.
Seen(p) ==
  SubSeq(errors, 1,
         IF calls[p].status = "returned" THEN calls[p].sends - 1
         ELSE calls[p].sends)

StrictlyIncreasing(ws) ==
  \A i \in 1..(Len(ws) - 1) : ws[i] < ws[i + 1]

AlwaysOverloaded(es) ==
  \A i \in 1..Len(es) : es[i].status = 529

\* C14 as stated: against a provider that always answers 529 the call of
\* callClaudeWithRetry makes exactly maxRetries attempts before failing,
\* with strictly increasing waits.
C14_MaxRetriesAttempts ==
  ( calls["anthropic"].status = "failed"
    /\ AlwaysOverloaded(Seen("anthropic")) ) =>
      /\ calls["anthropic"].sends = ClaudeMaxRetries
      /\ StrictlyIncreasing(calls["anthropic"].waits)

\* C14 amended: against a provider that always answers 529 the direct
\* Anthropic call makes exactly maxRetries + 1 attempts (the first one and
\* maxRetries retries) before failing, with maxRetries strictly increasing
\* waits between them.
C14_MaxRetriesPlusOneAttempts ==
  ( calls["anthropic"].status = "failed"
    /\ AlwaysOverloaded(Seen("anthropic")) ) =>
      /\ calls["anthropic"].sends = ClaudeMaxRetries + 1
      /\ Len(calls["anthropic"].waits) = ClaudeMaxRetries
      /\ StrictlyIncreasing(calls["anthropic"].waits)

C14_Witness ==
  /\ calls["anthropic"].status = "failed"
  /\ Len(errors) = ClaudeMaxRetries + 1
  /\ AlwaysOverloaded(errors)
  /\ calls["anthropic"].sends = ClaudeMaxRetries + 1
  /\ calls["anthropic"].waits[1] = OverloadBaseMs
  /\ calls["anthropic"].waits[ClaudeMaxRetries] = 16 * OverloadBaseMs

\* C15: whatever mix of failures one call meets, it never sends more than
\* maxRetries + 1 times, all retried failures advancing one counter.
C15_SendsBounded ==
  \A p \in Paths :
    /\ calls[p].sends <= maxRetries(p) + 1
    /\ calls[p].retries <= maxRetries(p)
    /\ calls[p].status = "running" => calls[p].sends = calls[p].retries

C15_Witness ==
  /\ calls["anthropic"].status = "failed"
  /\ calls["anthropic"].sends = ClaudeMaxRetries + 1
  /\ \E i, j, k \in 1..ClaudeMaxRetries :
       /\ errors[i].status = 429
       /\ errors[j].status = 529
       /\ errors[k].shouldRetry
  /\ errors[ClaudeMaxRetries + 1].status = 529

Unrecoverable(error) ==
  /\ error.status \notin { 429, 529 }
  /\ error.code # "rate_limit_exceeded"
  /\ ~error.shouldRetry

\* C16: a failure that is neither rate-limited, overloaded nor marked
\* retryable ends the call on that attempt: no wait, no further send.
C16_UnrecoverableNotRetried ==
  \A p \in Paths :
    \A i \in 1..Len(Seen(p)) :
      Unrecoverable(errors[i]) =>
        /\ calls[p].status = "failed"
        /\ calls[p].sends = i
        /\ Len(calls[p].waits) < i

C16_Witness ==
  /\ Len(errors) = 2
  /\ errors[1].status = 529
  /\ Unrecoverable(errors[2])
  /\ calls["anthropic"].status = "failed"
  /\ calls["anthropic"].sends = 2
  /\ calls["anthropic"].waits = << OverloadBaseMs >>

\* The wait the provider suggests, 0 if it suggests none.
Hint(error) ==
  IF error.retryAfterMs # 0 THEN error.retryAfterMs
  ELSE error.retryAfter * 1000

\* C17: on every path the wait after a retried rate-limited failure is the
\* provider's hint when there is one, and the fixed baseline otherwise.
C17_RateLimitWaitIsHint ==
  \A p \in Paths :
    \A i \in 1..Len(calls[p].waits) :
      errors[i].status = 429 =>
        calls[p].waits[i] =
          (IF Hint(errors[i]) # 0 THEN Hint(errors[i]) ELSE RateLimitBaseMs)

\* C18: given the same failures, the three paths take the same decisions
\* and make the same number of attempts.
C18_SameDecisionsOnEveryPath ==
  \A p, q \in Paths :
    /\ calls[p].status = calls[q].status
    /\ calls[p].sends = calls[q].sends

\* --------------------------------------- the choice of provider on its own
\* Model names: none given, an OpenAI name, a name that includes 'claude',
\* a name that starts with 'anthropic/'.
ModelNames == { "", "gpt-4", "claude-3-7-sonnet", "anthropic/x" }

\* options.model && (model.includes('claude') || model.startsWith('anthropic/'))
isClaudeModel(model) == model \in { "claude-3-7-sonnet", "anthropic/x" }

\* A choice that takes Claude when no model is named.
callsClaude_ByDefault(r) ==
  r.model = "" \/ isClaudeModel(r.model)

\* The condition of the if that picks callClaudeWithRetry:
\* generateSermonMetadata tests isClaudeModel, generateRadarScores tests
\* isClaudeModel || options.useClaude.
callsClaude(r) ==
  IF r.caller = "metadata" THEN isClaudeModel(r.model)
  ELSE isClaudeModel(r.model) \/ r.useClaude

\* options.useOpenRouter === true && openRouter !== null
shouldUseOpenRouter(r) == r.useOpenRouter /\ r.openRouter

\* The model name handed to the provider; "" is undefined. In
\* generateSermonMetadata the spread of useOpenRouterOptions comes last and
\* puts options.model back over the "gpt-3.5-turbo" default.
ModelSent(r) ==
  IF r.model # "" THEN r.model
  ELSE IF callsClaude(r) THEN "CLAUDE_MODEL or claude default"
  ELSE IF shouldUseOpenRouter(r) \/ r.caller = "radar"
  THEN "OPENAI_MODEL or gpt-4"
  ELSE ""

\* From the call of generateSermonMetadata or generateRadarScores to the
\* first send, or to the throw of a path whose client is not configured.
Dispatched(r) ==
  LET path == IF shouldUseOpenRouter(r) THEN "openrouter"
              ELSE IF callsClaude(r) THEN "anthropic"
              ELSE "openai"
      configured == \/ path = "openrouter"
                    \/ path = "anthropic" /\ r.anthropic
                    \/ path = "openai" /\ r.openai
  IN [ path |-> path, sent |-> configured, threw |-> ~configured,
       model |-> IF configured THEN ModelSent(r) ELSE "" ]

InitCall ==
  /\ file = [ header |-> EmptyObject, body |-> << BlankLine >> ]
  /\ prevFile = file
  /\ lastArgs = NoArgs
  /\ nwrites = 0
  /\ pc = "dispatch"
  /\ existingMetadata = EmptyObject
  /\ metadata = EmptyObject
  /\ llmResponse = << >>
  /\ PipelineIdle
  /\ BatchIdle
  /\ calls = [ p \in Paths |-> NoCall ]
  /\ errors = << >>
  /\ request \in [ caller : { "metadata", "radar" }, model : ModelNames,
                   useClaude : BOOLEAN, useOpenRouter : BOOLEAN,
                   openai : BOOLEAN, anthropic : BOOLEAN,
                   openRouter : BOOLEAN ]
  /\ dispatch = NoDispatch

CallUnchanged ==
  UNCHANGED << rewriteVars, options, invocations, batchVars, existingMetadata, metadata,
               metadataOutcome, newMetadata, llmResponse, radarOutcome,
               justifications, radar, result, calls, errors, request >>

\* generateSermonMetadata, lines 418-452.
DispatchMetadata ==
  /\ pc = "dispatch"
  /\ request.caller = "metadata"
  /\ dispatch' = Dispatched(request)
  /\ pc' = "dispatched"
  /\ CallUnchanged

\* generateRadarScores, lines 608-648.
DispatchRadar ==
  /\ pc = "dispatch"
  /\ request.caller = "radar"
  /\ dispatch' = Dispatched(request)
  /\ pc' = "dispatched"
  /\ CallUnchanged

NextCall == DispatchMetadata \/ DispatchRadar

SpecCall == InitCall /\ [][NextCall]_vars

\* Neither a model nor a provider flag is given.
NothingSelected ==
  /\ request.model = ""
  /\ ~request.useClaude
  /\ ~request.useOpenRouter

\* C19 as stated: with no provider or model selected the call fails fast,
\* no provider is chosen and nothing is sent.
C19_FailsFastWithoutSelection ==
  (pc = "dispatched" /\ NothingSelected) =>
    /\ ~dispatch.sent
    /\ dispatch.threw

\* C19 amended: with no provider or model selected the call takes the
\* OpenAI path by default; it sends when the OpenAI client is configured
\* and throws without sending only when it is not.
C19_OpenAIByDefault ==
  (pc = "dispatched" /\ NothingSelected) =>
    /\ dispatch.path = "openai"
    /\ dispatch.sent = request.openai
    /\ dispatch.threw = ~request.openai

C19_Witness ==
  /\ pc = "dispatched"
  /\ NothingSelected
  /\ request.caller = "radar"
  /\ request.openai
  /\ dispatch.path = "openai"
  /\ dispatch.sent
  /\ dispatch.model = "OPENAI_MODEL or gpt-4"

\* ------------------------------------------------- processSermonDirectory
\* A document of the directory is one of: a file whose frontmatter gray-matter
\* cannot parse, a file that needs nothing, a file that needs a provider call.
DocKinds == { "malformed", "complete", "needs" }

batchSize == 5

NoDocResult == [ path |-> 0, error |-> FALSE, updated |-> FALSE ]

PendingDoc ==
  [ pc |-> "pending", result |-> NoDocResult, updateCalled |-> FALSE,
    evaluation |-> "none" ]

\* A processSermonFile without its catch block: the error rejects the promise.
CaughtError_Rethrow(path) ==
  [ pc |-> "threw", result |-> NoDocResult, updateCalled |-> FALSE,
    evaluation |-> "none" ]

\* catch (error) { return { path: filePath, error: error.message,
\*                          updated: false }; }
CaughtError(path) ==
  [ pc |-> "done",
    result |-> [ path |-> path, error |-> TRUE, updated |-> FALSE ],
    updateCalled |-> FALSE, evaluation |-> "none" ]

\* processSermonFile with the default options, up to its first await or,
\* when there is none, to its return.
processSermonFileStart(path, kind) ==
  IF kind = "malformed" THEN CaughtError(path)
  ELSE IF kind = "complete"
  THEN [ pc |-> "done",
         result |-> [ path |-> path, error |-> FALSE, updated |-> FALSE ],
         updateCalled |-> FALSE, evaluation |-> "none" ]
  ELSE [ PendingDoc EXCEPT !.pc = "awaiting" ]

\* processSermonFile from the return of the generation calls (which catch
\* their own errors) to its return: the write and the result. evaluation
\* tells whether generateRadarScores got a reply or caught a failure.
processSermonFileFinish(path, evaluation) ==
  [ pc |-> "done",
    result |-> [ path |-> path, error |-> FALSE, updated |-> TRUE ],
    updateCalled |-> TRUE, evaluation |-> evaluation ]

\* A slice that takes every remaining file.
Batch_Rest(i) ==
  { j \in 1..Len(files) : i < j }

\* if (i + batchSize < files.length) : another batch follows.
MoreBatches(i, n) == i + batchSize < n

\* files.slice(i, i + batchSize), as positions in files.
Batch(i) ==
  { j \in 1..Len(files) : i < j /\ j <= i + batchSize }

Min(a, b) == IF a <= b THEN a ELSE b

InitBatch ==
  /\ file = [ header |-> EmptyObject, body |-> << BlankLine >> ]
  /\ prevFile = file
  /\ lastArgs = NoArgs
  /\ nwrites = 0
  /\ pc = "batch"
  /\ existingMetadata = EmptyObject
  /\ metadata = EmptyObject
  /\ llmResponse = << >>
  /\ PipelineIdle
  /\ CallIdle
  /\ files \in { << >> } \cup SeqsUpTo(DocKinds, MaxFiles)
  /\ docs = [ j \in 1..Len(files) |-> PendingDoc ]
  /\ results = << >>
  /\ batchAt = 0
  /\ batchPc = "loop"
  /\ delays = 0

BatchUnchanged ==
  UNCHANGED << rewriteVars, pc, options, invocations, callVars, existingMetadata,
               metadata, metadataOutcome, newMetadata, llmResponse,
               radarOutcome, justifications, radar, result, files >>

\* batch.map(file => processSermonFile(file, options)): every call of the
\* batch runs to its first await.
StartBatch ==
  /\ batchPc = "loop"
  /\ batchAt < Len(files)
  /\ docs' = [ j \in 1..Len(files) |->
                 IF j \in Batch(batchAt)
                 THEN processSermonFileStart(j, files[j])
                 ELSE docs[j] ]
  /\ batchPc' = "awaitAll"
  /\ UNCHANGED << results, batchAt, delays >>
  /\ BatchUnchanged

\* The generation calls of one document return and it finishes.
DocFinishes ==
  /\ batchPc = "awaitAll"
  /\ \E j \in Batch(batchAt) :
       /\ docs[j].pc = "awaiting"
       /\ \E evaluation \in { "reply", "failed" } :
            docs' = [ docs EXCEPT ![j] = processSermonFileFinish(j, evaluation) ]
  /\ UNCHANGED << results, batchAt, batchPc, delays >>
  /\ BatchUnchanged

\* Promise.all settles: results.push(...batchResults), then the 10 s wait
\* when another batch follows.
BatchSettles ==
  /\ batchPc = "awaitAll"
  /\ \A j \in Batch(batchAt) : docs[j].pc \in { "done", "threw" }
  /\ IF \E j \in Batch(batchAt) : docs[j].pc = "threw"
     THEN /\ batchPc' = "rejected"
          /\ UNCHANGED << results, batchAt >>
     ELSE /\ results' = results \o
                 [ k \in 1..(Min(batchAt + batchSize, Len(files)) - batchAt)
                     |-> docs[batchAt + k].result ]
          /\ IF MoreBatches(batchAt, Len(files))
             THEN batchPc' = "delay" /\ batchAt' = batchAt
             ELSE batchPc' = "loop" /\ batchAt' = batchAt + batchSize
  /\ UNCHANGED << docs, delays >>
  /\ BatchUnchanged

\* The wait between batches ends: i += batchSize.
DelayElapsed ==
  /\ batchPc = "delay"
  /\ batchAt' = batchAt + batchSize
  /\ batchPc' = "loop"
  /\ delays' = delays + 1
  /\ UNCHANGED << docs, results >>
  /\ BatchUnchanged

\* The loop condition fails: return results.
ReturnResults ==
  /\ batchPc = "loop"
  /\ batchAt >= Len(files)
  /\ batchPc' = "returned"
  /\ UNCHANGED << docs, results, batchAt, delays >>
  /\ BatchUnchanged

NextBatch ==
  \/ StartBatch
  \/ DocFinishes
  \/ BatchSettles
  \/ DelayElapsed
  \/ ReturnResults

SpecBatch == InitBatch /\ [][NextBatch]_vars

\* C20: the directory run is never aborted by a document; it returns one
\* result per file, in the order of files, with an error exactly on the
\* documents that failed, every other document processed and written.
C20_FailureStaysInItsDocument ==
  /\ batchPc # "rejected"
  /\ batchPc = "returned" =>
       /\ Len(results) = Len(files)
       /\ \A j \in 1..Len(files) :
            /\ results[j].path = j
            /\ results[j].error = (files[j] = "malformed")
            /\ files[j] = "needs" =>
                 docs[j].updateCalled /\ results[j].updated

C20_Witness ==
  /\ batchPc = "returned"
  /\ files = << "needs", "malformed", "needs", "complete", "needs", "needs" >>
  /\ Len(results) = batchSize + 1
  /\ results[2].error
  /\ \A j \in { 1, 3, 5, 6 } : ~results[j].error /\ docs[j].updateCalled

\* The batch a document belongs to, counted from 0.
GroupOf(j) == (j - 1) \div batchSize

InProgress == { j \in 1..Len(files) : docs[j].pc = "awaiting" }

\* C21: a document has started only when every document of the earlier
\* batches has finished and a wait has elapsed after each of them; at most
\* batchSize documents are in progress; no wait follows the last batch.
C21_GroupsInSequence ==
  /\ Cardinality(InProgress) <= batchSize
  /\ \A j \in 1..Len(files) :
       docs[j].pc # "pending" =>
         /\ delays >= GroupOf(j)
         /\ \A k \in 1..Len(files) :
              GroupOf(k) < GroupOf(j) => docs[k].pc = "done"
  /\ batchPc = "delay" => \E j \in 1..Len(files) : docs[j].pc = "pending"
  /\ (batchPc = "returned" /\ Len(files) > 0) =>
       delays = GroupOf(Len(files))

C21_Witness ==
  /\ Len(files) = batchSize + 1
  /\ \A j \in 1..Len(files) : files[j] = "needs"
  /\ batchPc = "awaitAll"
  /\ delays = 1
  /\ docs[batchSize + 1].pc = "awaiting"

\* ------------------------------------ processSermonFile: failures, flags
\* C22: when the evaluation fails on the primary model and fallbackModel is
\* set, generateRadarScores has been invoked exactly twice, the second time
\* with the fallback model, by the time processSermonFile returns.
C22_FallbackInvokedOnce ==
  (pc = "done" /\ radarOutcome = "failed" /\ options.fallbackModel) =>
    invocations.radar = 2

\* C23: when the evaluation of a document failed, the stored file is the
\* file that was read at the start.
C23_FailedDocumentUntouched ==
  (pc = "done" /\ radarOutcome = "failed") => file = prevFile

\* -------------------------------------------- main: the directory summary
\* results.filter(r => !r.error), as positions in results.
successful(rs) == { j \in 1..Len(rs) : ~rs[j].error }

\* results.filter(r => r.error) : the 'Failed' count and the listed files.
failed(rs) == { j \in 1..Len(rs) : rs[j].error }

\* C24: a document whose evaluation failed has an error in its result, is
\* among the files counted and listed as failed, and is not counted as
\* successfully processed.
C24_FailedEvaluationReported ==
  batchPc = "returned" =>
    \A j \in 1..Len(files) :
      docs[j].evaluation = "failed" =>
        /\ results[j].error
        /\ j \in failed(results)
        /\ j \notin successful(results)

\* ----------------------------------------------- the retry loops: budget
RECURSIVE Sum(_)
Sum(ws) == IF ws = << >> THEN 0 ELSE Head(ws) + Sum(Tail(ws))

\* The longest a call can wait on waits the code computes itself:
\* 5000 * (1 + 2 + 4 + 8 + 16) ms on the Anthropic path.
WaitBudget == OverloadBaseMs * (Pow2(ClaudeMaxRetries) - 1)

\* C25: on every path the waits of one call add up to no more than a fixed
\* budget, whatever failures and retry hints the provider answers with.
C25_TotalWaitBounded ==
  \A p \in Paths : Sum(calls[p].waits) <= WaitBudget

\* ------------------------------------------------- options of one document
\* C26: with dryRun the file is never written: it stays the text read at the
\* start, and the returned result says updated = false.
C26_DryRunNeverWrites ==
  options.dryRun =>
    /\ nwrites = 0
    /\ file = prevFile
    /\ ~result.updated

C26_Witness ==
  /\ pc = "done"
  /\ options.dryRun
  /\ metadataOutcome = "parsed"
  /\ radarOutcome = "reply"
  /\ result.returned
  /\ Has(result.metadata, "radar_score")
  /\ result.metadata # existingMetadata
  /\ nwrites = 0

\* The header fields that are not scores.
NonScoreFields == { "sermon_title", "bolt", "themes", "metaphors", "texts" }

SameField(a, b, k) ==
  /\ Has(a, k) = Has(b, k)
  /\ Has(a, k) => a[k] = b[k]

\* C27: with scoreOnly generateSermonMetadata is never invoked, and a header
\* that is written has the non-score fields of the header that was read,
\* missing and empty ones included.
C27_ScoreOnlyKeepsHeader ==
  options.scoreOnly =>
    /\ invocations.metadata = 0
    /\ nwrites >= 1 =>
         \A k \in NonScoreFields : SameField(file.header, existingMetadata, k)

HasBullet(body, c) ==
  \E i \in 1..Len(body) : body[i][1] = "bullet" /\ body[i][2] = c

\* C28: every category generateRadarScores scored has its bullet in the
\* written '## Radar Analysis' section, and is range-checked by the
\* validation of the same run.
C28_ScoredCategoriesRenderedAndChecked ==
  (pc = "done" /\ radarOutcome = "reply" /\ nwrites = 1) =>
    \A c \in DOMAIN radar.radar_score :
      /\ HasBullet(file.body, c)
      /\ radar.radar_score[c] \notin 0..10 =>
           << "invalid", c >> \in result.validation

\* C29: a result that says updated = true belongs to a run that wrote the
\* file.
C29_UpdatedOnlyWhenWritten ==
  (pc = "done" /\ result.updated) => nwrites >= 1

\* A header that has a title, a bolt, non-empty themes and metaphors and a
\* non-empty radar_score.
NeedsNothing(header) ==
  /\ Truthy(header, "sermon_title")
  /\ Truthy(header, "bolt")
  /\ Has(header, "themes") /\ header["themes"] # << >>
  /\ Has(header, "metaphors") /\ header["metaphors"] # << >>
  /\ Has(header, "radar_score") /\ DOMAIN header["radar_score"] # {}

\* C30: without updateExisting, a run on a document whose header needs
\* nothing makes no provider call, does not write the file and returns
\* updated = false; this holds for a first run and for a run that follows a
\* run which wrote the header.
C30_CompleteDocumentLeftAlone ==
  (pc = "done" /\ ~options.updateExisting /\ NeedsNothing(existingMetadata)) =>
    /\ invocations.metadata = 0
    /\ invocations.radar = 0
    /\ invocations.update = 0
    /\ ~result.updated
    /\ file.header = existingMetadata

\* A second run, after a run that generated the whole header and wrote it.
C30_Witness ==
  /\ pc = "done"
  /\ invocations.runs = 1
  /\ ~options.updateExisting
  /\ nwrites = 1
  /\ ~NeedsNothing(prevFile.header)
  /\ NeedsNothing(existingMetadata)
  /\ file.header = existingMetadata
  /\ result.returned
  /\ ~result.updated

====================================================================
